---- MODULE Spec2Model ----
(***************************************************************************)
(* SynthOCT baseline: the metric evaluation scripts.                       *)
(*                                                                         *)
(*   get_stats_and_rating   Metrics_Plots_with_Intervals_and_              *)
(*                          SignificanceLevel.py                           *)
(*   calc_pair_metrics,     Metric_Performance_Test_v5_MicroMesoMacro_     *)
(*   run_analysis           Empirical.py                                   *)
(*   calculate_all_metrics  Orchestrator.py                                *)
(*                                                                         *)
(* Samples are integers.  numpy's percentile, mean and std are rational    *)
(* or algebraic in the samples; they are carried exactly, as scaled        *)
(* integers, so every comparison of the code is decided exactly.           *)
(***************************************************************************)
EXTENDS Integers, Sequences, FiniteSets, TLC

VARIABLES
    \* --- Metrics_Plots_with_Intervals_and_SignificanceLevel.py ---
    df_intra,   \* df_intra, as far as `metric` goes: [has |-> whether the
                \* column is there, col |-> its cells]
    df_inter,   \* df_inter, likewise
    rating,     \* what get_stats_and_rating returned; "pending" before the call
    \* --- Metric_Performance_Test_v5_MicroMesoMacro_Empirical.py ---
    listing,            \* os.listdir(INPUT_DIR): the set of folder names
    images,             \* folder name -> the images of its Scan_*.png, sorted
    SEWAR_AVAILABLE,    \* whether sewar was imported
    ML_AVAILABLE,       \* whether torch and lpips were imported
    all_folders,        \* the folders in processing order
    mt,                 \* index into map_types of the map being processed
    pairs,              \* combinations_with_replacement(all_folders, 2)
    pidx,               \* index into pairs of the folder pair being processed
    c_type,             \* comparison type of the current folder pair
    tag,                \* tag of the current folder pair
    i,                  \* index into files_a of the outer file loop
    j_range,            \* the indices j still to visit for this i
    distributions,      \* tag -> metric -> list of values
    dist_keys,          \* the keys of distributions in insertion order
    comp_types,         \* tag -> comparison type
    raw_rows,           \* rows of the current folder pair's raw CSV
    csv,                \* file name <<map, tag>> -> rows written to Raw_CSVs
    baseline_intervals, \* metric -> (low, high) of the baseline bucket
    stats_rows,         \* rows of Summary_Stats.csv
    pc,                 \* where run_analysis stands
    scored,             \* history: the (i, j) passed to calc_pair_metrics
                        \* for the current folder pair, in order
    last_call,          \* history: arguments and result of the last
                        \* calc_pair_metrics call
    \* --- Orchestrator.py ---
    scan_images,        \* the images the scanner writes: Exp1 A, Exp1 B,
                        \* Exp2 A, Exp2 B
    crash_at,           \* which scanner call crashes (0: none)
    LPIPS_AVAILABLE,    \* whether torch and lpips were imported
    opc,                \* where run_experiment_pipeline stands
    exp,                \* index of the experiment (3: the cross-comparison)
    m_type,             \* index into map_types of the map being compared
    all_results,        \* rows of the report
    report,             \* Final_Metrics_Report.csv: its rows once written
    last_eval,          \* history: arguments and result of the last
                        \* calculate_all_metrics call
    \* --- Part3_Processor.py ---
    intensity,          \* the image given to calculate_oac and to
                        \* calculate_speckle_contrast_map: its rows, top first
    window_size,        \* the window of calculate_speckle_contrast_map
    mu_map,             \* what calculate_oac returned
    sc_map              \* what calculate_speckle_contrast_map did

ratingVars == <<df_intra, df_inter, rating>>

inputVars == <<listing, images, SEWAR_AVAILABLE, ML_AVAILABLE>>

loopVars == <<all_folders, mt, pairs, pidx, c_type, tag, i, j_range>>

dataVars == <<distributions, dist_keys, comp_types, raw_rows, csv,
              baseline_intervals, stats_rows>>

analysisVars == <<inputVars, loopVars, dataVars, pc, scored, last_call>>

orchVars == <<scan_images, crash_at, LPIPS_AVAILABLE, opc, exp, m_type,
              all_results, report, last_eval>>

procVars == <<intensity, window_size, mu_map, sc_map>>

vars == <<ratingVars, analysisVars, orchVars, procVars>>

---------------------------------------------------------------------------
(* Bounds of the model *)

MaxVal == 3     \* samples are drawn from 0..MaxVal
MaxLen == 3     \* a column holds at most MaxLen cells
MaxFiles == 3   \* a folder holds at most MaxFiles scans
MaxScans == 10  \* in the pairing runs a folder holds at most MaxScans scans
MaxDim == 4     \* an image given to the processor has at most MaxDim rows
                \* and MaxDim columns
MaxWindow == 3  \* the speckle-contrast window is at most MaxWindow

---------------------------------------------------------------------------
(* Sequences of numbers *)

RECURSIVE SumSeq(_)
SumSeq(s) == IF s = <<>> THEN 0 ELSE Head(s) + SumSeq(Tail(s))

RECURSIVE SumSq(_)
SumSq(s) == IF s = <<>> THEN 0 ELSE Head(s) * Head(s) + SumSq(Tail(s))

Max2(a, b) == IF a >= b THEN a ELSE b
Min2(a, b) == IF a <= b THEN a ELSE b

SeqsUpTo(S, n) == UNION {[1..k -> S] : k \in 0..n}

---------------------------------------------------------------------------
(* get_stats_and_rating *)

\* A cell of a data frame column: a sample <<x>>, or NaN.
NaN == <<>>

\* df[metric].dropna().values
RECURSIVE DropNa(_)
DropNa(col) ==
    IF col = <<>> THEN <<>>
    ELSE IF Head(col) = NaN THEN DropNa(Tail(col))
         ELSE <<Head(col)[1]>> \o DropNa(Tail(col))

Sorted(v) == SortSeq(v, LAMBDA a, b : a < b)

\* 40 * np.percentile(v, 100 * k / 40) with numpy's default linear
\* interpolation: the virtual index is (n - 1) * k / 40, and the value is
\* interpolated between the two neighbouring order statistics.
\* k = 1 is the 2.5th percentile, k = 39 the 97.5th.
Percentile40(v, k) ==
    LET s  == Sorted(v)
        n  == Len(v)
        lo == ((n - 1) * k) \div 40
        r  == ((n - 1) * k) % 40
    IN  IF r = 0 THEN 40 * s[lo + 1]
        ELSE 40 * s[lo + 1] + r * (s[lo + 2] - s[lo + 1])

P2_5(v)  == Percentile40(v, 1)
P97_5(v) == Percentile40(v, 39)

\* np.min, np.max
RECURSIVE MinSeq(_)
MinSeq(v) == IF Len(v) = 1 THEN v[1] ELSE Min2(Head(v), MinSeq(Tail(v)))
RECURSIVE MaxSeq(_)
MaxSeq(v) == IF Len(v) = 1 THEN v[1] ELSE Max2(Head(v), MaxSeq(Tail(v)))

\* np.std(v) = sqrt(VarN2(v)) / Len(v): VarN2 is n^2 times the population
\* variance, n * sum(x^2) - sum(x)^2.
VarN2(v) == Len(v) * SumSq(v) - SumSeq(v) * SumSeq(v)

\* gap > np.std(v1) + np.std(v2), decided exactly:
\*   gap > sqrt(A1)/n1 + sqrt(A2)/n2
\*   <=>  G > sqrt(a) + sqrt(b)      with G = gap n1 n2, a = n2^2 A1, b = n1^2 A2
\*   <=>  G > 0 /\ D > 0 /\ D^2 > 4ab   with D = G^2 - a - b.
\* Variant: the margin test made inclusive (gap >= std1 + std2).
GapExceedsStdSum_Inclusive(gap, v1, v2) ==
    LET n1 == Len(v1)
        n2 == Len(v2)
        G  == gap * n1 * n2
        a  == n2 * n2 * VarN2(v1)
        b  == n1 * n1 * VarN2(v2)
        D  == G * G - a - b
    IN  G > 0 /\ D >= 0 /\ D * D >= 4 * a * b

GapExceedsStdSum(gap, v1, v2) ==
    LET n1 == Len(v1)
        n2 == Len(v2)
        G  == gap * n1 * n2
        a  == n2 * n2 * VarN2(v1)
        b  == n1 * n1 * VarN2(v2)
        D  == G * G - a - b
    IN  G > 0 /\ D > 0 /\ D * D > 4 * a * b

\* Variant: intervals that touch in one point no longer overlap (< for <=).
Overlap95_Strict(v1, v2) ==
    Max2(P2_5(v1), P2_5(v2)) < Min2(P97_5(v1), P97_5(v2))

\* Level 1: overlap_95 = max(l1, l2) <= min(h1, h2)
Overlap95(v1, v2) == Max2(P2_5(v1), P2_5(v2)) <= Min2(P97_5(v1), P97_5(v2))

\* Level 2: overlap_100 = max(min1, min2) <= min(max1, max2)
Overlap100(v1, v2) == Max2(MinSeq(v1), MinSeq(v2)) <= Min2(MaxSeq(v1), MaxSeq(v2))

\* Level 3: the distance between the closest edges
\* Variant: gap = min1 - max2, whichever set lies above
Gap_OneSided(v1, v2) == MinSeq(v1) - MaxSeq(v2)

Gap(v1, v2) ==
    IF MinSeq(v1) > MaxSeq(v2) THEN MinSeq(v1) - MaxSeq(v2)
    ELSE MinSeq(v2) - MaxSeq(v1)

\* Variant: the `not` of `if not overlap_95` dropped.
StarLabel_NotDropped(v1, v2) ==
    IF Overlap95(v1, v2)
    THEN IF ~Overlap100(v1, v2)
         THEN IF GapExceedsStdSum(Gap(v1, v2), v1, v2) THEN "(***)" ELSE "(**)"
         ELSE "(*)"
    ELSE ""

\* The star label, by the nested ifs of the code.
StarLabel(v1, v2) ==
    IF ~Overlap95(v1, v2)
    THEN IF ~Overlap100(v1, v2)
         THEN IF GapExceedsStdSum(Gap(v1, v2), v1, v2) THEN "(***)" ELSE "(**)"
         ELSE "(*)"
    ELSE ""

\* (mu, mu - l, h - mu), each scaled by 40 * Len(v)
PlotStats(v) ==
    LET n == Len(v)
    IN  <<40 * SumSeq(v),
          40 * SumSeq(v) - n * P2_5(v),
          n * P97_5(v) - 40 * SumSeq(v)>>

get_stats_and_rating(d1, d2) ==
    IF ~d1.has \/ ~d2.has THEN [ret |-> "None"]
    ELSE LET v1 == DropNa(d1.col)
             v2 == DropNa(d2.col)
         IN  IF Len(v1) = 0 \/ Len(v2) = 0 THEN [ret |-> "None"]
             ELSE [ret   |-> "stats",
                   intra |-> PlotStats(v1),
                   inter |-> PlotStats(v2),
                   stars |-> StarLabel(v1, v2)]

---------------------------------------------------------------------------
(* Configuration and fixed lists of the performance test *)

NEIGHBOR_DEPTH == 5

map_types == <<"Struct", "OAC", "SC", "RSC">>
metric_names == <<"MSE", "PSNR", "SSIM", "MS-SSIM", "VIF", "LPIPS">>
Metrics == {metric_names[k] : k \in 1..Len(metric_names)}

\* A folder name is a string; it is carried as the sequence of its pieces, so
\* that string concatenation is sequence concatenation.
REFERENCE_SET == <<"Meso_Amp">>

\* Python orders strings by their characters.  The pieces used here start with
\* different characters ('A' < 'B' < 'C' < 'M' < '_'), so the character order
\* is the lexicographic order of the pieces, a proper prefix first.
PieceRank(t) ==
    CASE t = "A" -> 1 [] t = "B" -> 2 [] t = "C" -> 3
      [] t = "Meso_Amp" -> 4 [] OTHER -> 5

RECURSIVE NameLess(_, _)
NameLess(a, b) ==
    IF a = <<>> THEN b # <<>>
    ELSE IF b = <<>> THEN FALSE
    ELSE IF Head(a) = Head(b) THEN NameLess(Tail(a), Tail(b))
    ELSE PieceRank(Head(a)) < PieceRank(Head(b))

\* sorted(...) of a set of names
RECURSIVE SortedNames(_)
SortedNames(S) ==
    IF S = {} THEN <<>>
    ELSE LET m == CHOOSE x \in S : \A y \in S \ {x} : NameLess(x, y)
         IN  <<m>> \o SortedNames(S \ {m})

\* list(itertools.combinations_with_replacement(L, 2))
RECURSIVE CombinationsFrom(_, _)
CombinationsFrom(L, p) ==
    IF p > Len(L) THEN <<>>
    ELSE [q \in 1..(Len(L) - p + 1) |-> <<L[p], L[p + q - 1]>>]
         \o CombinationsFrom(L, p + 1)

combinations_with_replacement(L) == CombinationsFrom(L, 1)

\* range(a, b)
Range(a, b) == [k \in 1..Max2(0, b - a) |-> a + k - 1]

---------------------------------------------------------------------------
(* calc_pair_metrics *)

\* The places of calc_pair_metrics where a library call can raise.
Sites == {"mse", "psnr", "ssim", "vifp", "msssim", "lpips"}

\* An image file, as far as the evaluators can tell images apart:
\*   readable  io.imread returns (the file is there and decodes)
\*   shape     its dimensions
\*   level     its content
\*   raises    the library calls that raise when given this image
\*   maps      the map types whose file of the scan has these attributes;
\*             the scan's files of the other map types are good images
GoodImage ==
    [readable |-> TRUE, shape |-> 1, level |-> 0, raises |-> {},
     maps |-> {"Struct", "OAC", "SC", "RSC"}]

Abs(x) == IF x < 0 THEN 0 - x ELSE x

\* The value a metric library returns for a pair of images.  The libraries are
\* external; all that is kept is that the value is a number determined by the
\* two images.
Score(i1, i2) == <<Abs(i1.level - i2.level)>>

\* A dict with keys K, the keys in nanKeys holding np.nan, the others v.
Dict(K, nanKeys, v) == [m \in K |-> IF m \in nanKeys THEN NaN ELSE v]

\* Variant: the shape check of line 64 left out.
calc_pair_metrics_NoShapeCheck(i1, i2) ==
    LET bad   == i1.raises \cup i2.raises
        v     == Score(i1, i2)
        basic == IF "mse" \in bad THEN {}
                 ELSE IF "psnr" \in bad THEN {"MSE"}
                 ELSE IF "ssim" \in bad THEN {"MSE", "PSNR"}
                 ELSE {"MSE", "PSNR", "SSIM"}
        sewar == IF SEWAR_AVAILABLE THEN {"VIF", "MS-SSIM"} ELSE {}
        nans  == (IF "vifp" \in bad THEN {"VIF"} ELSE {})
                 \cup (IF "msssim" \in bad THEN {"MS-SSIM"} ELSE {})
        ml    == IF ML_AVAILABLE /\ "lpips" \notin bad THEN {"LPIPS"} ELSE {}
    IN  IF ~i1.readable \/ ~i2.readable THEN <<>>
        ELSE IF bad \cap {"mse", "psnr", "ssim"} # {} THEN Dict(basic, {}, v)
        ELSE Dict(basic \cup sewar \cup ml, nans, v)

calc_pair_metrics(i1, i2) ==
    LET bad   == i1.raises \cup i2.raises
        v     == Score(i1, i2)
        \* res after lines 66-68: a raise leaves what was stored before it
        basic == IF "mse" \in bad THEN {}
                 ELSE IF "psnr" \in bad THEN {"MSE"}
                 ELSE IF "ssim" \in bad THEN {"MSE", "PSNR"}
                 ELSE {"MSE", "PSNR", "SSIM"}
        sewar == IF SEWAR_AVAILABLE THEN {"VIF", "MS-SSIM"} ELSE {}
        nans  == (IF "vifp" \in bad THEN {"VIF"} ELSE {})
                 \cup (IF "msssim" \in bad THEN {"MS-SSIM"} ELSE {})
        ml    == IF ML_AVAILABLE /\ "lpips" \notin bad THEN {"LPIPS"} ELSE {}
    IN  IF ~i1.readable \/ ~i2.readable THEN <<>>
        ELSE IF i1.shape # i2.shape THEN <<>>
        ELSE IF bad \cap {"mse", "psnr", "ssim"} # {} THEN Dict(basic, {}, v)
        ELSE Dict(basic \cup sewar \cup ml, nans, v)

---------------------------------------------------------------------------
(* run_analysis *)

\* get_files(folder_name, map_type): the paths, each <<folder, k, map>>, of
\* the folder's scans for the map type, in sorted order.
get_files(folder_name, map_type) ==
    [k \in 1..Len(images[folder_name]) |-> <<folder_name, k, map_type>>]

\* io.imread of a path: the file of the scan for the path's map type.
Image(path) ==
    LET scan == images[path[1]][path[2]]
    IN  IF path[3] \in scan.maps THEN scan ELSE GoodImage

\* os.path.basename
basename(path) == <<path[2], path[3]>>

\* Variant: the branch `elif name_a == REFERENCE_SET` left out.
CompType_NoRefFirst(name_a, name_b) ==
    IF name_a = name_b THEN "Intra"
    ELSE IF name_b = REFERENCE_SET THEN "Inter"
    ELSE "Cross"

\* Lines 134-145: the comparison type and the tag of a folder pair.
CompType(name_a, name_b) ==
    IF name_a = name_b THEN "Intra"
    ELSE IF name_a = REFERENCE_SET THEN "Inter"
    ELSE IF name_b = REFERENCE_SET THEN "Inter"
    ELSE "Cross"

Tag(name_a, name_b) ==
    IF name_a = name_b THEN <<"Intra_">> \o name_a
    ELSE IF name_a = REFERENCE_SET THEN <<"Inter_">> \o name_b
    ELSE IF name_b = REFERENCE_SET THEN <<"Inter_">> \o name_a
    ELSE <<"Cross_">> \o name_a \o <<"_vs_">> \o name_b

\* Variant: range(i + 1, min(i + NEIGHBOR_DEPTH, len(files_a)))
IntraRange_Short(ii, na) == Range(ii + 1, Min2(ii + NEIGHBOR_DEPTH, na))

\* Variant: j_end = min(len(files_b), i + NEIGHBOR_DEPTH)
OtherRange_Short(ii, nb) ==
    Range(Max2(0, ii - NEIGHBOR_DEPTH), Min2(nb, ii + NEIGHBOR_DEPTH))

\* Lines 156-161: the indices j visited for index i.
IntraRange(ii, na) == Range(ii + 1, Min2(ii + 1 + NEIGHBOR_DEPTH, na))

OtherRange(ii, nb) ==
    Range(Max2(0, ii - NEIGHBOR_DEPTH), Min2(nb, ii + NEIGHBOR_DEPTH + 1))

\* d[k] = v on a dict kept as a function
Put(d, k, v) == (k :> v) @@ d

EmptyBuckets == [m \in Metrics |-> <<>>]

\* Line 168: for m, v in res.items(): distributions[tag][m].append(v)
AppendRes(buckets, res) ==
    [m \in Metrics |->
        IF m \in DOMAIN res THEN Append(buckets[m], res[m]) ELSE buckets[m]]

name_a == pairs[pidx][1]
name_b == pairs[pidx][2]
files_a == get_files(name_a, map_types[mt])
files_b == get_files(name_b, map_types[mt])

\* Lines 112-119
Discover ==
    /\ pc = "discover"
    /\ all_folders' =
          LET s == SortedNames(listing)
          IN  IF REFERENCE_SET \in listing
              THEN <<REFERENCE_SET>> \o SelectSeq(s, LAMBDA x : x # REFERENCE_SET)
              ELSE s
    /\ mt' = 1
    /\ pc' = "map"
    /\ UNCHANGED <<procVars, inputVars, ratingVars, orchVars, dataVars, scored, last_call,
                   pairs, pidx, c_type, tag, i, j_range>>

\* Lines 124-131: the head of the loop over map types
BeginMap ==
    /\ pc = "map"
    /\ mt <= Len(map_types)
    /\ distributions' = <<>>
    /\ dist_keys' = <<>>
    /\ comp_types' = <<>>
    /\ pairs' = combinations_with_replacement(all_folders)
    /\ pidx' = 1
    /\ pc' = "pair"
    /\ UNCHANGED <<procVars, inputVars, ratingVars, orchVars, scored, last_call, all_folders, mt,
                   c_type, tag, i, j_range, raw_rows, csv, baseline_intervals,
                   stats_rows>>

\* Lines 133-153: the head of the loop over folder pairs
BeginPair ==
    /\ pc = "pair"
    /\ pidx <= Len(pairs)
    /\ LET t == Tag(name_a, name_b)
       IN  /\ c_type' = CompType(name_a, name_b)
           /\ tag' = t
           /\ distributions' = Put(distributions, t, EmptyBuckets)
           /\ dist_keys' = IF t \in DOMAIN distributions THEN dist_keys
                           ELSE Append(dist_keys, t)
           /\ comp_types' = Put(comp_types, t, CompType(name_a, name_b))
    /\ raw_rows' = <<>>
    /\ i' = 0
    /\ j_range' = <<>>
    /\ scored' = <<>>
    /\ pc' = "row"
    /\ UNCHANGED <<procVars, inputVars, ratingVars, orchVars, last_call, all_folders, mt, pairs,
                   pidx, csv, baseline_intervals, stats_rows>>

\* Lines 155-161: the head of the loop over i
RowHead ==
    /\ pc = "row"
    /\ i < Len(files_a)
    /\ j_range' = IF c_type = "Intra" THEN IntraRange(i, Len(files_a))
                  ELSE OtherRange(i, Len(files_b))
    /\ pc' = "inner"
    /\ UNCHANGED <<procVars, inputVars, ratingVars, orchVars, dataVars, scored, last_call,
                   all_folders, mt, pairs, pidx, c_type, tag, i>>

\* Lines 163-176: one pass of the loop over j
Inner ==
    /\ pc = "inner"
    /\ j_range # <<>>
    /\ j_range' = Tail(j_range)
    /\ LET j == Head(j_range)
       IN  IF c_type # "Intra" /\ i = j
           THEN UNCHANGED <<dataVars, scored, last_call>>
           ELSE LET p1  == files_a[i + 1]
                    p2  == files_b[j + 1]
                    res == calc_pair_metrics(Image(p1), Image(p2))
                IN  /\ scored' = Append(scored, <<i, j>>)
                    /\ last_call' = [p1 |-> p1, p2 |-> p2, res |-> res]
                    /\ IF DOMAIN res # {}
                       THEN /\ distributions' =
                                 [distributions EXCEPT ![tag] = AppendRes(@, res)]
                            /\ raw_rows' = Append(raw_rows,
                                 [File1 |-> basename(p1), File2 |-> basename(p2),
                                  res |-> res])
                            /\ UNCHANGED <<dist_keys, comp_types, csv,
                                           baseline_intervals, stats_rows>>
                       ELSE UNCHANGED dataVars
    /\ UNCHANGED <<procVars, inputVars, ratingVars, orchVars, all_folders, mt, pairs, pidx, c_type,
                   tag, i, pc>>

\* The loop over j is exhausted: the next i
RowEnd ==
    /\ pc = "inner"
    /\ j_range = <<>>
    /\ i' = i + 1
    /\ pc' = "row"
    /\ UNCHANGED <<procVars, inputVars, ratingVars, orchVars, dataVars, scored, last_call,
                   all_folders, mt, pairs, pidx, c_type, tag, j_range>>

\* Lines 178-180: the loop over i is exhausted: save the raw CSV
EndPair ==
    /\ pc = "row"
    /\ i >= Len(files_a)
    /\ csv' = IF raw_rows # <<>> THEN Put(csv, <<map_types[mt], tag>>, raw_rows)
              ELSE csv
    /\ pidx' = pidx + 1
    /\ pc' = "pair"
    /\ UNCHANGED <<procVars, inputVars, ratingVars, orchVars, scored, last_call, all_folders, mt,
                   pairs, c_type, tag, i, j_range, distributions, dist_keys,
                   comp_types, raw_rows, baseline_intervals, stats_rows>>

\* Statistics of a list of values that may hold np.nan: numpy returns nan
\* as soon as one value is nan.
HasNaN(vals) == \E k \in 1..Len(vals) : vals[k] = NaN
Values(vals) == [k \in 1..Len(vals) |-> vals[k][1]]

\* np.percentile(vals, 100 * k / 40), times 40, as a cell
PercentileCell(vals, k) ==
    IF HasNaN(vals) THEN NaN ELSE <<Percentile40(Values(vals), k)>>

\* np.mean(vals), as the cell <<sum, count>>
MeanCell(vals) ==
    IF HasNaN(vals) THEN NaN ELSE <<SumSeq(Values(vals)), Len(vals)>>

\* Python's max(a, b) and min(a, b) keep a unless b compares greater (less);
\* every comparison with nan is False.
CellLess(a, b) == a # NaN /\ b # NaN /\ a[1] < b[1]
CellLeq(a, b)  == a # NaN /\ b # NaN /\ a[1] <= b[1]
PyMax(a, b) == IF CellLess(a, b) THEN b ELSE a
PyMin(a, b) == IF CellLess(b, a) THEN b ELSE a

\* Variant: return max(low1, low2) < min(high1, high2)
check_interval_overlap_Strict(low1, high1, low2, high2) ==
    CellLess(PyMax(low1, low2), PyMin(high1, high2))

check_interval_overlap(low1, high1, low2, high2) ==
    CellLeq(PyMax(low1, low2), PyMin(high1, high2))

base_tag == <<"Intra_">> \o REFERENCE_SET

\* Lines 184-193: the baseline intervals, once the folder pairs are done
Baseline ==
    /\ pc = "pair"
    /\ pidx > Len(pairs)
    /\ baseline_intervals' =
          IF base_tag \in DOMAIN distributions
          THEN [m \in Metrics |->
                  LET vals == distributions[base_tag][m]
                  IN  IF vals # <<>>
                      THEN <<PercentileCell(vals, 1), PercentileCell(vals, 39)>>
                      ELSE <<NaN, NaN>>]
          ELSE <<>>
    /\ pc' = "classify"
    /\ UNCHANGED <<procVars, inputVars, ratingVars, orchVars, loopVars, scored, last_call,
                   distributions, dist_keys, comp_types, raw_rows, csv,
                   stats_rows>>

\* Variant: baseline_intervals.get(m, (0, 0))
StatsRow_ZeroDefault(t, m) ==
    LET vals == distributions[t][m]
        low  == PercentileCell(vals, 1)
        high == PercentileCell(vals, 39)
        base == IF m \in DOMAIN baseline_intervals THEN baseline_intervals[m]
                ELSE <<(<<0>>), (<<0>>)>>
        is_overlap ==
            IF t # base_tag /\ base[1] # NaN
            THEN check_interval_overlap(base[1], base[2], low, high)
            ELSE TRUE
    IN  [Map |-> map_types[mt], Comparison |-> t, Type |-> comp_types[t],
         Metric |-> m, Mean |-> MeanCell(vals), P_2_5 |-> low, P_97_5 |-> high,
         Diagnostic_Power |-> ~is_overlap]

\* Lines 199-213: the summary row of one non-empty bucket
StatsRow(t, m) ==
    LET vals == distributions[t][m]
        low  == PercentileCell(vals, 1)
        high == PercentileCell(vals, 39)
        base == IF m \in DOMAIN baseline_intervals THEN baseline_intervals[m]
                ELSE <<NaN, NaN>>
        is_overlap ==
            IF t # base_tag /\ base[1] # NaN
            THEN check_interval_overlap(base[1], base[2], low, high)
            ELSE TRUE
    IN  [Map |-> map_types[mt], Comparison |-> t, Type |-> comp_types[t],
         Metric |-> m, Mean |-> MeanCell(vals), P_2_5 |-> low, P_97_5 |-> high,
         Diagnostic_Power |-> ~is_overlap]

\* Lines 196-197: the rows of one tag, skipping the empty buckets
RECURSIVE TagRows(_, _)
TagRows(t, k) ==
    IF k > Len(metric_names) THEN <<>>
    ELSE (IF distributions[t][metric_names[k]] = <<>> THEN <<>>
          ELSE <<StatsRow(t, metric_names[k])>>)
         \o TagRows(t, k + 1)

\* Line 195: for tag, metrics in distributions.items()
RECURSIVE AllRows(_)
AllRows(keys) ==
    IF keys = <<>> THEN <<>>
    ELSE TagRows(Head(keys), 1) \o AllRows(Tail(keys))

\* Lines 195-213: the summary rows of this map type; then the next map type
Classify ==
    /\ pc = "classify"
    /\ stats_rows' = stats_rows \o AllRows(dist_keys)
    /\ mt' = mt + 1
    /\ pc' = "map"
    /\ UNCHANGED <<procVars, inputVars, ratingVars, orchVars, scored, last_call, all_folders,
                   pairs, pidx, c_type, tag, i, j_range, distributions,
                   dist_keys, comp_types, raw_rows, csv, baseline_intervals>>

\* Lines 215-255: every map type is done: Summary_Stats.csv and the plots
Finish ==
    /\ pc = "map"
    /\ mt > Len(map_types)
    /\ pc' = "done"
    /\ UNCHANGED <<procVars, inputVars, ratingVars, orchVars, loopVars, dataVars, scored, last_call>>

AnalysisNext ==
    \/ Discover
    \/ BeginMap
    \/ BeginPair
    \/ RowHead
    \/ Inner
    \/ RowEnd
    \/ EndPair
    \/ Baseline
    \/ Classify
    \/ Finish

---------------------------------------------------------------------------
(* Orchestrator.py: calculate_all_metrics and run_experiment_pipeline *)

None == [none |-> TRUE, res |-> <<>>]
Some(d) == [none |-> FALSE, res |-> d]

\* Line 75: transform.resize(img_tar, img_ref.shape)
Resize(img_tar, shape) == [img_tar EXCEPT !.shape = shape]

\* SEWAR_AVAILABLE here is Orchestrator.py's own flag of that name.
calculate_all_metrics(img_ref, img_tar0) ==
    LET img_tar == IF img_ref.shape # img_tar0.shape
                   THEN Resize(img_tar0, img_ref.shape) ELSE img_tar0
        bad  == img_ref.raises \cup img_tar.raises
        v    == Score(img_ref, img_tar)
        nans == (IF SEWAR_AVAILABLE
                 THEN (IF "vifp" \in bad THEN {"VIF"} ELSE {})
                      \cup (IF "msssim" \in bad THEN {"MS-SSIM"} ELSE {})
                 ELSE {"VIF", "MS-SSIM"})
                \cup (IF LPIPS_AVAILABLE /\ "lpips" \notin bad THEN {}
                      ELSE {"LPIPS"})
    IN  IF ~img_ref.readable \/ ~img_tar0.readable THEN None
        ELSE IF bad \cap {"mse", "psnr", "ssim"} # {} THEN None
        ELSE Some(Dict(Metrics, nans, v))

experiments == <<"Exp1_Uniform", "Exp2_Layers">>

\* The two images compared for experiment e: scans A and B of the experiment,
\* or, for the cross-comparison, scan A of each experiment.  The derived maps
\* of a scan share its attributes.
RefImage(e) == IF e <= Len(experiments) THEN scan_images[2 * e - 1]
               ELSE scan_images[1]
TarImage(e) == IF e <= Len(experiments) THEN scan_images[2 * e]
               ELSE scan_images[3]

\* Lines 133-175: the scanner runs on phantoms A and B of the experiment; a
\* crash of either call returns from the pipeline.
ScanPhantoms ==
    /\ opc = "scan"
    /\ IF crash_at \in {2 * exp - 1, 2 * exp}
       THEN opc' = "returned"
       ELSE opc' = "compare"
    /\ m_type' = 1
    /\ UNCHANGED <<procVars, ratingVars, analysisVars, scan_images, crash_at,
                   LPIPS_AVAILABLE, exp, all_results, report, last_eval>>

\* Lines 180-192 and 213-223: one map type of one comparison
Compare ==
    /\ opc = "compare"
    /\ LET metrics == calculate_all_metrics(RefImage(exp), TarImage(exp))
       IN  /\ last_eval' = [called |-> TRUE, e |-> exp, m |-> map_types[m_type],
                            ref |-> RefImage(exp), tar |-> TarImage(exp),
                            metrics |-> metrics]
           /\ all_results' =
                 IF ~metrics.none
                 THEN Append(all_results,
                        [Experiment |-> exp, Map_Type |-> map_types[m_type],
                         metrics |-> metrics.res])
                 ELSE all_results
    /\ IF m_type < Len(map_types)
       THEN /\ m_type' = m_type + 1
            /\ UNCHANGED <<exp, opc>>
       ELSE /\ m_type' = 1
            /\ exp' = exp + 1
            /\ opc' = IF exp < Len(experiments) THEN "scan"
                      ELSE IF exp = Len(experiments) THEN "compare"
                      ELSE "save"
    /\ UNCHANGED <<procVars, ratingVars, analysisVars, scan_images, crash_at,
                   LPIPS_AVAILABLE, report>>

\* Lines 231-240: the report is written if there is any row
SaveReport ==
    /\ opc = "save"
    /\ report' = all_results
    /\ opc' = "done"
    /\ UNCHANGED <<procVars, ratingVars, analysisVars, scan_images, crash_at,
                   LPIPS_AVAILABLE, exp, m_type, all_results, last_eval>>

OrchNext ==
    \/ ScanPhantoms
    \/ Compare
    \/ SaveReport

---------------------------------------------------------------------------
(* Part3_Processor.py: calculate_oac and calculate_speckle_contrast_map *)

\* An image is the sequence of its rows, the top row first; a row is the
\* sequence of its pixels.
HPX == 6

NumRows(a) == Len(a)
NumCols(a) == IF a = <<>> THEN 0 ELSE Len(a[1])

\* a[::-1, :]
Reverse(a) == [k \in 1..Len(a) |-> a[Len(a) + 1 - k]]

\* np.cumsum(a, axis=0)
RECURSIVE ColSum(_, _, _)
ColSum(a, r, c) == IF r = 0 THEN 0 ELSE a[r][c] + ColSum(a, r - 1, c)
CumSum(a) == [r \in 1..NumRows(a) |-> [c \in 1..NumCols(a) |-> ColSum(a, r, c)]]

\* Variant: the cumulative sum is not turned back (it runs from the top).
calculate_oac_FromTop(I, h_px) ==
    LET cumsum == CumSum(I)
    IN  [r \in 1..NumRows(I) |-> [c \in 1..NumCols(I) |->
           [num |-> I[r][c], h |-> h_px, den2 |-> 2 * cumsum[r][c] - I[r][c]]]]

\* calculate_oac.  A pixel of the result is kept as the exact terms of
\*   mu = num / (2 * h * (denom_term + epsilon)),  den2 = 2 * denom_term.
calculate_oac(I, h_px) ==
    LET I_rev == Reverse(I)
        cumsum_rev == CumSum(I_rev)
        cumsum_from_bottom == Reverse(cumsum_rev)
    IN  [r \in 1..NumRows(I) |-> [c \in 1..NumCols(I) |->
           [num |-> I[r][c], h |-> h_px,
            den2 |-> 2 * cumsum_from_bottom[r][c] - I[r][c]]]]

\* scipy's mode='reflect' (d c b a | a b c d | d c b a): the index, from 0,
\* of the pixel that stands at position idx of the extended line of n pixels.
ReflectIndex(idx, n) ==
    LET m == idx % (2 * n) IN IF m < n THEN m ELSE 2 * n - 1 - m

\* The pixels under the window of uniform_filter(size=w) at row r, column c
\* (from 1): the window starts w // 2 before the pixel along each axis.
Window(a, r, c, w) ==
    [k \in 1..(w * w) |->
        a[ReflectIndex(r - 1 - (w \div 2) + ((k - 1) \div w), NumRows(a)) + 1]
         [ReflectIndex(c - 1 - (w \div 2) + ((k - 1) % w), NumCols(a)) + 1]]

\* Lines 42-47.  With S and Q the sums of the window's pixels and of their
\* squares and n = w * w: mean_val = S / n, var_val = (n*Q - S*S) / n^2 cut
\* at 0, and sc_map = sqrt(var_val) / (mean_val + 1e-10).  A pixel of sc_map
\* is kept as the exact terms [var |-> n*Q - S*S, mean |-> S, n |-> n].
SpeckleContrast(data, w) ==
    [r \in 1..NumRows(data) |-> [c \in 1..NumCols(data) |->
        LET win == Window(data, r, c, w)
            n   == w * w
        IN  [var  |-> Max2(0, n * SumSq(win) - SumSeq(win) * SumSeq(win)),
             mean |-> SumSeq(win), n |-> n]]]

\* The indices, from 1, that the slice [border:-border] keeps of n: -0 is 0,
\* so a border of 0 keeps nothing.
SliceLow(n, border) == Min2(border, n) + 1
SliceHigh(n, border) == IF border = 0 THEN 0 ELSE Max2(n - border, 0)
SliceLen(n, border) ==
    Max2(0, SliceHigh(n, border) - SliceLow(n, border) + 1)

\* Line 51: sc_map[border:-border, border:-border], with its numpy shape
Crop(a, border) ==
    LET hc == SliceLen(NumRows(a), border)
        wc == SliceLen(NumCols(a), border)
    IN  [shape |-> <<hc, wc>>,
         px |-> [r \in 1..hc |-> [c \in 1..wc |->
                   a[SliceLow(NumRows(a), border) + r - 1]
                    [SliceLow(NumCols(a), border) + c - 1]]]]

Clamp(x, lo, hi) == Max2(lo, Min2(hi, x))

\* Line 54: np.pad(cropped, border, mode='edge').  An empty axis cannot be
\* extended by edge values: numpy raises ValueError.
Pad(cropped, border) ==
    LET hc == cropped.shape[1]
        wc == cropped.shape[2]
    IN  IF (hc = 0 \/ wc = 0) /\ border > 0
        THEN [done |-> TRUE, raises |-> TRUE, shape |-> <<0, 0>>, px |-> <<>>]
        ELSE IF hc = 0 \/ wc = 0
        THEN [done |-> TRUE, raises |-> FALSE, shape |-> cropped.shape,
              px |-> cropped.px]
        ELSE [done |-> TRUE, raises |-> FALSE,
              shape |-> <<hc + 2 * border, wc + 2 * border>>,
              px |-> [r \in 1..(hc + 2 * border) |->
                       [c \in 1..(wc + 2 * border) |->
                          cropped.px[Clamp(r - border, 1, hc)]
                                    [Clamp(c - border, 1, wc)]]]]

calculate_speckle_contrast_map(data, w) ==
    LET sc_full == SpeckleContrast(data, w)
        border == w \div 2
        sc_map_cropped == Crop(sc_full, border)
    IN  Pad(sc_map_cropped, border)

Pending == [done |-> FALSE]

\* generate_maps, line 83:
\* sc_map = calculate_speckle_contrast_map(intensity, WINDOW_SIZE)
Sc ==
    /\ intensity # <<>>
    /\ sc_map = Pending
    /\ sc_map' = calculate_speckle_contrast_map(intensity, window_size)
    /\ UNCHANGED <<ratingVars, analysisVars, orchVars, intensity, window_size,
                   mu_map>>

\* generate_maps, line 77: mu_map = calculate_oac(intensity, HPX)
Oac ==
    /\ intensity # <<>>
    /\ mu_map = Pending
    /\ mu_map' = [done |-> TRUE, px |-> calculate_oac(intensity, HPX)]
    /\ UNCHANGED <<ratingVars, analysisVars, orchVars, intensity, window_size,
                   sc_map>>

ProcNext == Oac \/ Sc

\* The functions of the processor are not called.
ProcIdle ==
    /\ intensity = <<>>
    /\ window_size = 0
    /\ mu_map = Pending
    /\ sc_map = Pending

---------------------------------------------------------------------------
(* Inputs *)

\* Images that differ from GoodImage in one attribute, in the files of every
\* map type or in the derived OAC map only.
OddMaps == {GoodImage.maps, {"OAC"}}
OddImages ==
    {[o EXCEPT !.maps = ms] :
        o \in {[GoodImage EXCEPT !.readable = FALSE],
               [GoodImage EXCEPT !.shape = 2],
               [GoodImage EXCEPT !.level = 1]}
              \cup {[GoodImage EXCEPT !.raises = {s}] : s \in Sites},
        ms \in OddMaps}

NameA == <<"A">>
Names == {REFERENCE_SET, NameA, <<"A", "_vs_", "B">>, <<"B", "_vs_", "C">>, <<"C">>}

\* Every folder of L holds n good images.
Uniform(L, n) == [f \in L |-> [k \in 1..n |-> GoodImage]]

Input(L, imgs, sewar, ml) ==
    [listing |-> L, images |-> imgs, sewar |-> sewar, ml |-> ml]

\* Any set of folders, each with the same number of good images, every
\* optional library installed.
NameInputs ==
    {Input(L, Uniform(L, n), TRUE, TRUE) : L \in SUBSET Names, n \in 0..MaxFiles}

\* The reference set and one other folder, either or both present; at most
\* one image is odd; the optional libraries installed or not.
FaultInputs ==
    UNION {
      {Input(L, Uniform(L, n), sw, ml)}
      \cup {Input(L, [Uniform(L, n) EXCEPT ![f][k] = odd], sw, ml) :
              f \in L, k \in 1..n, odd \in OddImages}
      : L \in SUBSET {REFERENCE_SET, NameA}, n \in 0..MaxFiles,
        sw \in BOOLEAN, ml \in BOOLEAN}

\* The reference set with N good images and another folder with M.
PairingInputs ==
    {Input({REFERENCE_SET, NameA},
           (REFERENCE_SET :> [k \in 1..n |-> GoodImage])
              @@ (NameA :> [k \in 1..m |-> GoodImage]),
           TRUE, TRUE) : n \in 0..MaxScans, m \in 0..MaxScans}

\* Images of H rows and W columns whose pixels run over 0..MaxVal in ramps
\* along the rows and the columns.
Ramp(H, W, a, b, s) ==
    [r \in 1..H |-> [c \in 1..W |-> (a * r + b * c + s) % (MaxVal + 1)]]

ProcInputs ==
    {Ramp(H, W, a, b, s) : H \in 1..MaxDim, W \in 1..MaxDim,
                           a \in 0..MaxVal, b \in 0..MaxVal, s \in 0..MaxVal}

RatingIdle ==
    /\ df_intra = [has |-> FALSE, col |-> <<>>]
    /\ df_inter = [has |-> FALSE, col |-> <<>>]
    /\ rating = [ret |-> "off"]

\* run_analysis is about to start on the given input.
AnalysisStart(inp) ==
    /\ listing = inp.listing
    /\ images = inp.images
    /\ SEWAR_AVAILABLE = inp.sewar
    /\ ML_AVAILABLE = inp.ml
    /\ all_folders = <<>>
    /\ mt = 0
    /\ pairs = <<>>
    /\ pidx = 0
    /\ c_type = ""
    /\ tag = <<>>
    /\ i = 0
    /\ j_range = <<>>
    /\ distributions = <<>>
    /\ dist_keys = <<>>
    /\ comp_types = <<>>
    /\ raw_rows = <<>>
    /\ csv = <<>>
    /\ baseline_intervals = <<>>
    /\ stats_rows = <<>>
    /\ scored = <<>>
    /\ last_call = [p1 |-> <<>>, p2 |-> <<>>, res |-> <<>>]

AnalysisIdle ==
    /\ AnalysisStart(Input({}, <<>>, FALSE, FALSE))
    /\ pc = "off"

\* run_experiment_pipeline is about to start.
OrchStart(imgs, crash, lp) ==
    /\ scan_images = imgs
    /\ crash_at = crash
    /\ LPIPS_AVAILABLE = lp
    /\ exp = 1
    /\ m_type = 1
    /\ all_results = <<>>
    /\ report = <<>>
    /\ last_eval = [called |-> FALSE, e |-> 0, m |-> "", ref |-> GoodImage,
                    tar |-> GoodImage, metrics |-> None]

OrchIdle ==
    /\ OrchStart(<<>>, 0, FALSE)
    /\ opc = "off"

\* The four scans the scanner writes are readable; at most one is odd.
ScanSets ==
    {[k \in 1..4 |-> GoodImage]}
    \cup {[[k \in 1..4 |-> GoodImage] EXCEPT ![n] = odd] :
            n \in 1..4,
            odd \in {o \in OddImages : o.readable /\ o.maps = GoodImage.maps}}

AnalysisInit ==
    /\ \E inp \in NameInputs \cup FaultInputs : AnalysisStart(inp)
    /\ pc = "discover"
    /\ RatingIdle
    /\ OrchIdle
    /\ ProcIdle

PairingInit ==
    /\ \E inp \in PairingInputs : AnalysisStart(inp)
    /\ pc = "discover"
    /\ RatingIdle
    /\ OrchIdle
    /\ ProcIdle

OrchInit ==
    /\ \E imgs \in ScanSets, crash \in 0..4, sw \in BOOLEAN, lp \in BOOLEAN :
          /\ OrchStart(imgs, crash, lp)
          /\ AnalysisStart(Input({}, <<>>, sw, FALSE))
    /\ opc = "scan"
    /\ pc = "off"
    /\ RatingIdle
    /\ ProcIdle

\* The data frames read from the CSV files: the metric's column is missing,
\* or holds up to MaxLen cells: samples, or a nan and then samples.
CellsOf(v) == [k \in 1..Len(v) |-> <<v[k]>>]
Frames ==
    {[has |-> FALSE, col |-> <<>>]}
    \cup {[has |-> TRUE, col |-> CellsOf(v)] : v \in SeqsUpTo(0..MaxVal, MaxLen)}
    \cup {[has |-> TRUE, col |-> <<NaN>> \o CellsOf(v)] :
            v \in SeqsUpTo(0..MaxVal, MaxLen - 1)}

RatingInit ==
    /\ df_intra \in Frames
    /\ df_inter \in Frames
    /\ rating = [ret |-> "pending"]
    /\ AnalysisIdle
    /\ OrchIdle
    /\ ProcIdle

\* Lines 146-149 of run(): the call, on the two frames read
Rate ==
    /\ rating.ret = "pending"
    /\ rating' = get_stats_and_rating(df_intra, df_inter)
    /\ UNCHANGED <<df_intra, df_inter, analysisVars, orchVars, procVars>>

\* pd.read_csv of a raw CSV written by run_analysis, as far as `metric`
\* goes: the columns are the keys of the rows, a key a row lacks reads nan.
FrameOf(rows, metric) ==
    IF \E k \in 1..Len(rows) : metric \in DOMAIN rows[k].res
    THEN [has |-> TRUE,
          col |-> [k \in 1..Len(rows) |->
                     IF metric \in DOMAIN rows[k].res THEN rows[k].res[metric]
                     ELSE NaN]]
    ELSE [has |-> FALSE, col |-> <<>>]

\* Lines 142-143 of run(), with the baseline's raw CSV of one map type
\* given as both files: the baseline is compared against itself.
ReadBaselineTwice ==
    /\ pc = "done"
    /\ rating.ret = "off"
    /\ \E m \in 1..Len(map_types), metric \in Metrics :
          /\ <<map_types[m], base_tag>> \in DOMAIN csv
          /\ df_intra' = FrameOf(csv[<<map_types[m], base_tag>>], metric)
          /\ df_inter' = FrameOf(csv[<<map_types[m], base_tag>>], metric)
    /\ rating' = [ret |-> "pending"]
    /\ UNCHANGED <<analysisVars, orchVars, procVars>>

\* Any frame, compared against itself
SelfInit ==
    /\ df_intra \in Frames
    /\ df_inter = df_intra
    /\ rating = [ret |-> "pending"]
    /\ AnalysisIdle
    /\ OrchIdle
    /\ ProcIdle

---------------------------------------------------------------------------
(* Specifications *)

\* The star rating on any two frames
SpecRating == RatingInit /\ [][Rate]_vars

\* The processor's functions on an image
ProcInit ==
    /\ intensity \in ProcInputs
    /\ window_size \in 1..MaxWindow
    /\ mu_map = Pending
    /\ sc_map = Pending
    /\ RatingIdle
    /\ AnalysisIdle
    /\ OrchIdle

SpecProcessor == ProcInit /\ [][ProcNext]_vars

\* Either script is run: run_analysis, or run_experiment_pipeline
Init == AnalysisInit \/ OrchInit
Next == AnalysisNext \/ OrchNext
Spec == Init /\ [][Next]_vars

\* run_analysis on two folders of up to MaxScans scans
SpecPairing == PairingInit /\ [][AnalysisNext]_vars

\* A distribution against itself: any frame, or the baseline's raw CSV that
\* run_analysis wrote
SelfNext == AnalysisNext \/ ReadBaselineTwice \/ Rate
SpecSelf == (SelfInit \/ AnalysisInit) /\ [][SelfNext]_vars

---------------------------------------------------------------------------
(* Claims about get_stats_and_rating *)

V1 == DropNa(df_intra.col)
V2 == DropNa(df_inter.col)
Rated == rating.ret = "stats"

\* The [2.5, 97.5] percentile intervals do not overlap.
PctApart(a, b) == Max2(P2_5(a), P2_5(b)) > Min2(P97_5(a), P97_5(b))
\* The [min, max] ranges do not overlap.
RangeApart(a, b) == Max2(MinSeq(a), MinSeq(b)) > Min2(MaxSeq(a), MaxSeq(b))
\* The distance between the nearest edges of two ranges that do not overlap.
EdgeGap(a, b) == Max2(MinSeq(a), MinSeq(b)) - Min2(MaxSeq(a), MaxSeq(b))
\* With G = g n1 n2, A = n2^2 n1^2 var(a), B = n1^2 n2^2 var(b):
\* g <= std(a) + std(b)  <=>  G <= sqrt(A) + sqrt(B).
StdScaled(g, a, b) ==
    [G |-> g * Len(a) * Len(b),
     A |-> Len(b) * Len(b) * (Len(a) * SumSq(a) - SumSeq(a) * SumSeq(a)),
     B |-> Len(a) * Len(a) * (Len(b) * SumSq(b) - SumSeq(b) * SumSeq(b))]
GapWithinStdSum(g, a, b) ==
    LET t == StdScaled(g, a, b)
        D == t.G * t.G - t.A - t.B
    IN  t.G <= 0 \/ D <= 0 \/ D * D <= 4 * t.A * t.B
GapEqualsStdSum(g, a, b) ==
    LET t == StdScaled(g, a, b)
        D == t.G * t.G - t.A - t.B
    IN  t.G >= 0 /\ D >= 0 /\ D * D = 4 * t.A * t.B

\* C1: for any two non-empty sample sets the verdict is None ('') when the
\* percentile intervals overlap (touching in one point included), otherwise
\* '(*)' when the [min, max] ranges overlap, otherwise '(**)' when the gap
\* between the nearest range edges is <= std1 + std2, otherwise '(***)'.
C1_TierBoundaries ==
    Rated =>
        rating.stars =
            IF ~PctApart(V1, V2) THEN ""
            ELSE IF ~RangeApart(V1, V2) THEN "(*)"
            ELSE IF GapWithinStdSum(EdgeGap(V1, V2), V1, V2) THEN "(**)"
            ELSE "(***)"

\* A '(**)' verdict whose gap equals std1 + std2 exactly.
C1_Witness ==
    /\ Rated
    /\ rating.stars = "(**)"
    /\ GapEqualsStdSum(EdgeGap(V1, V2), V1, V2)

\* C2: tier monotonicity: '(***)' only when the ranges do not overlap,
\* '(**)' and '(***)' only when the percentile intervals do not overlap, and
\* any verdict other than None only when the percentile intervals do not
\* overlap.
C2_TierMonotone ==
    Rated =>
        /\ rating.stars = "(***)" => RangeApart(V1, V2)
        /\ rating.stars \in {"(**)", "(***)"} => PctApart(V1, V2)
        /\ rating.stars # "" => PctApart(V1, V2)

\* A '(***)' verdict between two sets of several samples each.
C2_Witness ==
    /\ Rated
    /\ rating.stars = "(***)"
    /\ Len(V1) > 1
    /\ Len(V2) > 1

\* C3: a distribution compared against itself yields None, and the summary
\* rows of the baseline bucket Intra_<REFERENCE_SET> have Diagnostic_Power
\* False for every metric.
C3_SelfIsNone ==
    /\ (Rated /\ df_intra = df_inter) => rating.stars = ""
    /\ \A k \in 1..Len(stats_rows) :
          stats_rows[k].Comparison = base_tag => ~stats_rows[k].Diagnostic_Power

\* The baseline's raw CSV, holding different values, was rated against
\* itself after run_analysis wrote the baseline's summary rows.
C3_Witness ==
    /\ pc = "done"
    /\ Rated
    /\ df_intra = df_inter
    /\ rating.stars = ""
    /\ MinSeq(V1) < MaxSeq(V1)
    /\ \E k \in 1..Len(stats_rows) : stats_rows[k].Comparison = base_tag

---------------------------------------------------------------------------
(* Claims about run_analysis *)

InPair == pc \in {"row", "inner"}
PairDone == pc = "row" /\ i >= Len(files_a)
ScoredSet == {scored[k] : k \in 1..Len(scored)}
Partners(a) == {p[2] : p \in {q \in ScoredSet : q[1] = a}}

\* C4: a folder pair is typed Intra when the folders are equal, else Inter
\* when either is REFERENCE_SET, else Cross.
C4_ComparisonType ==
    InPair =>
        /\ name_a = name_b => c_type = "Intra"
        /\ (name_a # name_b /\ REFERENCE_SET \in {name_a, name_b})
              => c_type = "Inter"
        /\ (name_a # name_b /\ REFERENCE_SET \notin {name_a, name_b})
              => c_type = "Cross"
        /\ comp_types[tag] = c_type

\* The reference set against another folder, with a pair scored.
C4_Witness ==
    /\ InPair
    /\ name_a = REFERENCE_SET
    /\ name_b # REFERENCE_SET
    /\ c_type = "Inter"
    /\ scored # <<>>

\* {(a, b) : 0 <= a < n, a+1 <= b <= min(a+d, n-1)}
IntraBand(n, d) ==
    {p \in (0..(n - 1)) \X (0..(n - 1)) :
        p[1] + 1 <= p[2] /\ p[2] <= Min2(p[1] + d, n - 1)}

\* C5: the index pairs scored for an Intra comparison of N files are those
\* of the band, each once; with d = 5 and N = 10 index 0 has the partners
\* 1..5 and index 8 the partner 9.
C5_IntraPairs ==
    (InPair /\ c_type = "Intra") =>
        /\ ScoredSet \subseteq IntraBand(Len(files_a), NEIGHBOR_DEPTH)
        /\ Cardinality(ScoredSet) = Len(scored)
        /\ \A p \in ScoredSet : <<p[2], p[1]>> \notin ScoredSet
        /\ PairDone => ScoredSet = IntraBand(Len(files_a), NEIGHBOR_DEPTH)
        /\ (PairDone /\ Len(files_a) = 10) =>
              (Partners(0) = 1..5 /\ Partners(8) = {9})

\* An Intra comparison of 10 files is complete.
C5_Witness ==
    /\ PairDone
    /\ c_type = "Intra"
    /\ Len(files_a) = 10
    /\ Len(scored) > 0

\* {(a, b) : 0 <= a < n, max(0, a-d) <= b <= min(m-1, a+d), b # a}
OtherBand(n, m, d) ==
    {p \in (0..(n - 1)) \X (0..(m - 1)) :
        /\ Max2(0, p[1] - d) <= p[2]
        /\ p[2] <= Min2(m - 1, p[1] + d)
        /\ p[2] # p[1]}

\* C6: the index pairs scored for an Inter or Cross comparison of N and M
\* files are those of the band, and no index outside 0..M-1 is read.
C6_OtherPairs ==
    (InPair /\ c_type # "Intra") =>
        /\ ScoredSet \subseteq
              OtherBand(Len(files_a), Len(files_b), NEIGHBOR_DEPTH)
        /\ \A p \in ScoredSet : 0 <= p[2] /\ p[2] <= Len(files_b) - 1
        /\ Cardinality(ScoredSet) = Len(scored)
        /\ PairDone => ScoredSet =
              OtherBand(Len(files_a), Len(files_b), NEIGHBOR_DEPTH)

\* An Inter comparison is complete in which the last source indices had no
\* partner: N > M + d.
C6_Witness ==
    /\ PairDone
    /\ c_type = "Inter"
    /\ Len(files_b) > 0
    /\ Len(files_a) > Len(files_b) + NEIGHBOR_DEPTH
    /\ Len(scored) > 0


---------------------------------------------------------------------------
(* Claims about the evaluators and the aggregation *)

BasicSites == {"mse", "psnr", "ssim"}
SiteOf(m) ==
    CASE m = "MSE" -> "mse" [] m = "PSNR" -> "psnr" [] m = "SSIM" -> "ssim"
      [] m = "VIF" -> "vifp" [] m = "MS-SSIM" -> "msssim" [] OTHER -> "lpips"

\* calc_pair_metrics was called, on two images that were read
CallMade == last_call.p1 # <<>>
CallRef == Image(last_call.p1)
CallTar == Image(last_call.p2)
CallRead == CallMade /\ CallRef.readable /\ CallTar.readable

\* Metric m can be computed for the two images: its library is there and
\* its call does not raise.
CanCompute(m, img1, img2, lpips) ==
    /\ SiteOf(m) \notin (img1.raises \cup img2.raises)
    /\ m \in {"VIF", "MS-SSIM"} => SEWAR_AVAILABLE
    /\ m = "LPIPS" => lpips

Scored(res, m) == m \in DOMAIN res /\ res[m] # NaN

\* C7: for a pair of same-shape images, every metric that can be computed is
\* scored in the result, whatever other metric raises or is unavailable - by
\* calc_pair_metrics and by calculate_all_metrics.
C7_MetricIsolation ==
    /\ (CallRead /\ CallRef.shape = CallTar.shape) =>
          \A m \in Metrics :
              CanCompute(m, CallRef, CallTar, ML_AVAILABLE)
                  <=> Scored(last_call.res, m)
    /\ (last_eval.called /\ last_eval.ref.shape = last_eval.tar.shape) =>
          \A m \in Metrics :
              CanCompute(m, last_eval.ref, last_eval.tar, LPIPS_AVAILABLE)
                  <=> Scored(last_eval.metrics.res, m)

ShapesDiffer(img1, img2) == img1.shape # img2.shape

\* The (i, j) scored so far for the current folder pair whose images have
\* the same shape.
SameShapeScored ==
    {k \in 1..Len(scored) :
        ~ShapesDiffer(Image(files_a[scored[k][1] + 1]),
                      Image(files_b[scored[k][2] + 1]))}

\* The images of a raw row of the current folder pair
RowRef(row) == Image(<<name_a, row.File1[1], row.File1[2]>>)
RowTar(row) == Image(<<name_b, row.File2[1], row.File2[2]>>)

ReportRowOf(e, m) ==
    {k \in 1..Len(all_results) :
        all_results[k].Experiment = e /\ all_results[k].Map_Type = m}

\* C8 as stated: whenever the two images of a pair differ in dimensions the
\* evaluator returns an empty result, and nothing is added for the pair to a
\* Distribution, a raw CSV row or a report row - in run_analysis and in the
\* orchestrator.
C8_MismatchIsEmpty ==
    /\ (CallRead /\ ShapesDiffer(CallRef, CallTar)) => last_call.res = <<>>
    /\ InPair => \A k \in 1..Len(raw_rows) :
                    ~ShapesDiffer(RowRef(raw_rows[k]), RowTar(raw_rows[k]))
    /\ (last_eval.called /\ ShapesDiffer(last_eval.ref, last_eval.tar)) =>
          /\ last_eval.metrics.none
          /\ ReportRowOf(last_eval.e, last_eval.m) = {}

\* C8 amended: calc_pair_metrics returns an empty result for two images that
\* differ in dimensions, and run_analysis adds nothing for the pair to a
\* Distribution or a raw CSV row; calculate_all_metrics resamples the target
\* to the reference's shape and scores the pair as a same-shape pair, and
\* the orchestrator adds its report row, unless MSE, PSNR or SSIM raises.
C8_MismatchSkippedOrResampled ==
    /\ (CallRead /\ ShapesDiffer(CallRef, CallTar)) => last_call.res = <<>>
    /\ InPair =>
          /\ \A k \in 1..Len(raw_rows) :
                ~ShapesDiffer(RowRef(raw_rows[k]), RowTar(raw_rows[k]))
          /\ \A m \in Metrics :
                Len(distributions[tag][m]) <= Cardinality(SameShapeScored)
    /\ (last_eval.called /\ ShapesDiffer(last_eval.ref, last_eval.tar)) =>
          LET raised == (last_eval.ref.raises \cup last_eval.tar.raises)
                           \cap BasicSites # {}
          IN  /\ last_eval.metrics.none <=> raised
              /\ ~raised =>
                    /\ last_eval.metrics =
                          calculate_all_metrics(
                              last_eval.ref,
                              [last_eval.tar EXCEPT !.shape = last_eval.ref.shape])
                    /\ DOMAIN last_eval.metrics.res = Metrics
                    /\ Cardinality(ReportRowOf(last_eval.e, last_eval.m)) = 1

\* run_analysis met a pair of different dimensions after it had scored a
\* pair of the same folder pair.
C8_Witness ==
    /\ pc = "inner"
    /\ CallRead
    /\ last_call.p1[1] = name_a
    /\ ShapesDiffer(CallRef, CallTar)
    /\ last_call.res = <<>>
    /\ Len(scored) > 1
    /\ raw_rows # <<>>

\* The (i, j) scored for the current folder pair whose result was not empty
NonEmptyScored ==
    {k \in 1..Len(scored) :
        DOMAIN calc_pair_metrics(Image(files_a[scored[k][1] + 1]),
                                 Image(files_b[scored[k][2] + 1])) # {}}

\* C9: when the aggregation of a tag ends, each of the six lists of
\* distributions[tag] has as many values as there are scored pairs with a
\* non-empty result, which is the number of rows of the tag's raw CSV.
C9_OneValuePerMetric ==
    PairDone =>
        /\ \A m \in Metrics :
              Len(distributions[tag][m]) = Cardinality(NonEmptyScored)
        /\ Len(raw_rows) = Cardinality(NonEmptyScored)

IsPrefix(a, b) == Len(a) <= Len(b) /\ SubSeq(b, 1, Len(a)) = a

\* C10: within one map type a bucket only grows: no step of the folder-pair
\* loop removes, overwrites or resets a value, and no step of the statistics
\* phase changes a bucket.  (The step that begins a map type, pc = "map",
\* starts the map type's own buckets.)
C10_BucketsOnlyGrow ==
    [][(pc \in {"pair", "row", "inner", "classify"}) =>
         /\ \A t \in DOMAIN distributions :
               /\ t \in DOMAIN distributions'
               /\ \A m \in Metrics :
                     IsPrefix(distributions[t][m], distributions'[t][m])
         /\ (pc = "classify" \/ (pc = "pair" /\ pidx > Len(pairs)))
               => distributions' = distributions]_vars

---------------------------------------------------------------------------
(* Claims about the summary rows *)

Rows == {stats_rows[k] : k \in 1..Len(stats_rows)}

\* The complete baseline bucket of a map type and metric, read back from the
\* raw CSV of the baseline tag: the values of the rows that hold the metric.
RECURSIVE ColumnOf(_, _)
ColumnOf(rows, metric) ==
    IF rows = <<>> THEN <<>>
    ELSE (IF metric \in DOMAIN Head(rows).res THEN <<Head(rows).res[metric]>>
          ELSE <<>>)
         \o ColumnOf(Tail(rows), metric)

BaseBucket(map, metric) ==
    IF <<map, base_tag>> \in DOMAIN csv
    THEN ColumnOf(csv[<<map, base_tag>>], metric) ELSE <<>>

IntervalOf(vals) == <<PercentileCell(vals, 1), PercentileCell(vals, 39)>>

\* max(lows) > min(highs), over numbers
Apart(a, b) ==
    /\ NaN \notin {a[1], a[2], b[1], b[2]}
    /\ Max2(a[1][1], b[1][1]) > Min2(a[2][1], b[2][1])

\* C11: a summary row of another tag than the baseline's, for a metric whose
\* baseline bucket is not empty, has Diagnostic_Power True exactly when its
\* interval and the interval of the complete baseline bucket of its own map
\* type are apart; that interval is in baseline_intervals when the rows of a
\* map type are about to be written, and no row of a map type is written
\* before.
C11_PowerIsNonOverlap ==
    /\ \A row \in Rows :
          (row.Comparison # base_tag /\ BaseBucket(row.Map, row.Metric) # <<>>)
             => (row.Diagnostic_Power <=>
                   Apart(<<row.P_2_5, row.P_97_5>>,
                         IntervalOf(BaseBucket(row.Map, row.Metric))))
    /\ pc \in {"pair", "row", "inner", "classify"} =>
          \A row \in Rows : row.Map # map_types[mt]
    /\ pc = "classify" =>
          \A m \in Metrics :
             BaseBucket(map_types[mt], m) # <<>> =>
                 baseline_intervals[m] = IntervalOf(BaseBucket(map_types[mt], m))

\* Two rows of one tag and metric, the one of a map type where the samples
\* stand apart from the baseline, the other of a map type where they do not.
C11_Witness ==
    \E r1, r2 \in Rows :
        /\ r1.Comparison # base_tag
        /\ r1.Comparison = r2.Comparison
        /\ r1.Metric = r2.Metric
        /\ r1.Map # r2.Map
        /\ BaseBucket(r1.Map, r1.Metric) # <<>>
        /\ BaseBucket(r2.Map, r2.Metric) # <<>>
        /\ r1.Diagnostic_Power
        /\ ~r2.Diagnostic_Power

\* The reference set is not among the folders of INPUT_DIR
NoReference == pc # "off" /\ REFERENCE_SET \notin listing

RowFor(map, t, m) ==
    {row \in Rows : row.Map = map /\ row.Comparison = t /\ row.Metric = m}

\* C12: without the reference set run_analysis goes on to its end over all
\* the folders, types no pair Inter and every pair of distinct folders Cross,
\* computes no baseline interval, writes a summary row for every non-empty
\* bucket, and every row has Diagnostic_Power False.
C12_MissingReference ==
    NoReference =>
        /\ pc # "done" => ENABLED AnalysisNext
        /\ pc # "discover" =>
              /\ {all_folders[k] : k \in 1..Len(all_folders)} = listing
              /\ Len(all_folders) = Cardinality(listing)
        /\ InPair => c_type = (IF name_a = name_b THEN "Intra" ELSE "Cross")
        /\ \A t \in DOMAIN comp_types : comp_types[t] # "Inter"
        /\ baseline_intervals = <<>>
        /\ (pc = "map" /\ mt > 1) =>
              \A t \in DOMAIN distributions : \A m \in Metrics :
                  distributions[t][m] # <<>>
                     => RowFor(map_types[mt - 1], t, m) # {}
        /\ \A row \in Rows : ~row.Diagnostic_Power

\* run_analysis ended without the reference set, with rows of an Intra tag
\* and of a Cross tag.
C12_Witness ==
    /\ NoReference
    /\ pc = "done"
    /\ \E row \in Rows : row.Type = "Intra"
    /\ \E row \in Rows : row.Type = "Cross"

\* The samples of a bucket: its values that are not nan
Samples(vals) == {k \in 1..Len(vals) : vals[k] # NaN}

\* C13: a summary row is written for a map type, tag and metric exactly when
\* the bucket holds at least one sample, and get_stats_and_rating returns
\* None exactly when the metric's column is missing from a frame or a frame
\* has no sample once the missing values are dropped.
C13_EmptyOmitted ==
    /\ (pc = "map" /\ mt > 1) =>
          \A t \in DOMAIN distributions : \A m \in Metrics :
              RowFor(map_types[mt - 1], t, m) # {}
                 <=> Samples(distributions[t][m]) # {}
    /\ rating.ret \notin {"off", "pending"} =>
          (rating.ret = "None"
             <=> \/ ~df_intra.has
                 \/ ~df_inter.has
                 \/ Samples(df_intra.col) = {}
                 \/ Samples(df_inter.col) = {})

---------------------------------------------------------------------------
(* Claims about the processor *)

InputShape == <<NumRows(intensity), NumCols(intensity)>>
Border == window_size \div 2

\* C14: calculate_speckle_contrast_map returns a map of the input's H rows
\* and W columns, for every window size from 1 on; inside the border band a
\* pixel is a copy of the nearest pixel of the cropped interior.
C14_SameShape ==
    sc_map.done =>
        /\ ~sc_map.raises
        /\ sc_map.shape = InputShape
        /\ \A r \in 1..InputShape[1] : \A c \in 1..InputShape[2] :
              sc_map.px[r][c] =
                 SpeckleContrast(intensity, window_size)
                    [Clamp(r, Border + 1, InputShape[1] - Border)]
                    [Clamp(c, Border + 1, InputShape[2] - Border)]

\* The sum of the column's intensities from depth row r down to the bottom
RECURSIVE SumBelow(_, _, _)
SumBelow(I, r, c) ==
    IF r > NumRows(I) THEN 0 ELSE I[r][c] + SumBelow(I, r + 1, c)

\* mu = num / (h * (den2 + 2 * epsilon)) is above 0
MuPositive(p) ==
    \/ p.num > 0 /\ p.h > 0 /\ p.den2 >= 0
    \/ p.num < 0 /\ p.h > 0 /\ p.den2 < 0

\* C15: calculate_oac returns a map of the input's shape whose pixel at row
\* r, column c is intensity / (2 * HPX * (denominator + epsilon)) with the
\* denominator the sum of the column's intensities from row r down minus
\* half the intensity at r; at the deepest row the denominator is half the
\* intensity there and the coefficient is above 0 when that intensity is.
C15_OacDenominator ==
    mu_map.done =>
        LET H == NumRows(intensity)
            W == NumCols(intensity)
        IN  /\ DOMAIN mu_map.px = 1..H
            /\ \A r \in 1..H :
                  /\ DOMAIN mu_map.px[r] = 1..W
                  /\ \A c \in 1..W :
                        /\ mu_map.px[r][c].num = intensity[r][c]
                        /\ mu_map.px[r][c].h = HPX
                        /\ mu_map.px[r][c].den2 =
                              2 * SumBelow(intensity, r, c) - intensity[r][c]
            /\ \A c \in 1..W :
                  /\ mu_map.px[H][c].den2 = intensity[H][c]
                  /\ intensity[H][c] > 0 => MuPositive(mu_map.px[H][c])

\* calculate_oac returned for an image of several rows and columns whose
\* columns differ and whose deepest row holds a positive intensity.
C15_Witness ==
    /\ mu_map.done
    /\ NumRows(intensity) > 2
    /\ NumCols(intensity) > 1
    /\ \E c \in 1..NumCols(intensity) :
          /\ intensity[NumRows(intensity)][c] > 0
          /\ intensity[1][c] > 0
    /\ \E c1, c2 \in 1..NumCols(intensity) :
          mu_map.px[1][c1].den2 # mu_map.px[1][c2].den2

---------------------------------------------------------------------------
(* Claims about the tags and the symmetry of the rating *)

\* C16: in the pass of one map type every unordered pair of folders, a
\* folder with itself included, is processed once, and two different folder
\* pairs never have the same tag.
C16_TagsUnique ==
    pc \in {"pair", "row", "inner", "classify"} =>
        /\ \A a, b \in listing :
              \E p \in 1..Len(pairs) : pairs[p] \in {<<a, b>>, <<b, a>>}
        /\ \A p, q \in 1..Len(pairs) :
              p # q =>
                 /\ pairs[p] # pairs[q]
                 /\ pairs[p] # <<pairs[q][2], pairs[q][1]>>
                 /\ Tag(pairs[p][1], pairs[p][2]) # Tag(pairs[q][1], pairs[q][2])

\* The frame whose column holds the samples v in ascending order
InOrder(v) == [has |-> TRUE, col |-> CellsOf(Sorted(v))]

\* C17: the star label is the same when the two sample sets change places,
\* and it is the label of the two sets put in ascending order, so that every
\* permutation of the samples of a set has the same label; and when the
\* ranges do not overlap, which is when tier 3 is evaluated, the gap
\* computed is above 0 and is the distance between the nearest edges of the
\* ranges.
C17_Symmetric ==
    Rated =>
        /\ get_stats_and_rating(df_inter, df_intra).stars = rating.stars
        /\ get_stats_and_rating(InOrder(V1), InOrder(V2)).stars = rating.stars
        /\ RangeApart(V1, V2) =>
              /\ Gap(V1, V2) > 0
              /\ Gap(V1, V2) = EdgeGap(V1, V2)

\* A rating of tier 3 in which the candidate lies above the baseline and the
\* baseline's samples are not in order.
C17_Witness ==
    /\ Rated
    /\ rating.stars = "(***)"
    /\ MinSeq(V2) > MaxSeq(V1)
    /\ Len(V1) > 1
    /\ V1[1] > V1[2]

====
